---- MODULE Spec2Model ----
(***************************************************************************)
(* The WiMAX interactive simulator (src/app.py) as a state machine.        *)
(*                                                                         *)
(* app.py is a Streamlit script: every widget interaction re-executes it   *)
(* from the top with the widgets' current values; the button returns True  *)
(* only in the execution its click started.  An execution that is inside   *)
(* the live-simulation loop is abandoned when the next interaction         *)
(* arrives, and the script starts again from line 1.                       *)
(*                                                                         *)
(* Numbers.  Python floats are modelled with integers:                     *)
(*   snr_db                 dB (the slider is an integer slider)           *)
(*   snr_dynamic            milli-dB                                       *)
(*   bw                     hundredths of a MHz (the float slider's step)  *)
(*   data_rate, throughput  bit/s, integral part                           *)
(*   thr_vals               Mbps with six decimals (the same integer)      *)
(*   delay, jitter          thousandths of a ms, integral part             *)
(*   snr_lin, ber, plr      decimal floating point [m, e] standing for     *)
(*                          (m / 10^4) * 10^e with 10000 <= m < 100000,    *)
(*                          or m = 0, e = 0 for 0.0; results below half    *)
(*                          the smallest float64 subnormal become 0.0      *)
(***************************************************************************)
EXTENDS Integers, Sequences, FiniteSets, TLC

(***************************************************************************)
(* Bounds of the model.                                                    *)
(***************************************************************************)
\* number of states of the random generator (np.random's global state)
RngModulus == 4
\* SNR slider positions tried: those within SnrEdge of either end, and the default
SnrEdge == 0
\* bandwidth slider positions tried: both ends, the default and BwNear steps above it
BwNear == 0

(***************************************************************************)
(* Widgets (lines 27, 28, 36, 79).                                         *)
(***************************************************************************)
\* a slider that starts one position lower
SNR_MIN_Lower == 0 - 1
SNR_MIN == 0
SNR_MAX == 30
SNR_DEFAULT == 10
BW_MIN == 125
BW_MAX == 2000
BW_DEFAULT == 1000

SnrValues == SNR_MIN..SNR_MAX
BwValues == BW_MIN..BW_MAX
ModSchemes == {"QPSK (2 bits/sym)", "16-QAM (4 bits/sym)", "64-QAM (6 bits/sym)"}
QosClasses == {"UGS", "rtPS", "nrtPS", "BE"}

SnrInputs ==
  {s \in SnrValues : s - SNR_MIN <= SnrEdge \/ SNR_MAX - s <= SnrEdge \/ s = SNR_DEFAULT}
BwInputs ==
  {b \in BwValues : b = BW_MIN \/ b = BW_MAX \/ (b >= BW_DEFAULT /\ b - BW_DEFAULT <= BwNear)}

(***************************************************************************)
(* Floating point.                                                         *)
(***************************************************************************)
Zero == [m |-> 0, e |-> 0]

\* a * b / s without leaving 32 bits
MulDiv(a, b, s) == (a \div s) * b + ((a % s) * b) \div s

\* 10^(1/10), 10^(1/100), 10^(1/1000), 10^(1/10000), four decimals
Root10 == <<12589, 10233, 10023, 10002>>

RECURSIVE MulPow(_, _, _)
MulPow(x, r, k) == IF k = 0 THEN x ELSE MulPow((x * r) \div 10000, r, k - 1)

\* 10^(rem/10^4) for 0 <= rem < 10^4, four decimals
Frac10(rem) ==
  MulPow(MulPow(MulPow(MulPow(10000, Root10[1], rem \div 1000),
                       Root10[2], (rem \div 100) % 10),
                Root10[3], (rem \div 10) % 10),
         Root10[4], rem % 10)

\* 10 ** (n / 10^4)
Pow10(n) == [m |-> Frac10(n % 10000), e |-> n \div 10000]

\* half of the smallest positive float64, 2^-1075: anything below rounds to 0.0
HalfMinSubnormal == [m |-> 24703, e |-> 0 - 324]

FloatLess(a, b) ==
  IF a.m = 0 THEN b.m # 0
  ELSE IF b.m = 0 THEN FALSE
  ELSE a.e < b.e \/ (a.e = b.e /\ a.m < b.m)

Underflow(f) == IF f.m = 0 \/ FloatLess(f, HalfMinSubnormal) THEN Zero ELSE f

\* 0.5 * f
Half(f) ==
  Underflow(IF f.m = 0 THEN Zero
            ELSE IF f.m >= 20000 THEN [m |-> f.m \div 2, e |-> f.e]
            ELSE [m |-> (f.m * 10) \div 2, e |-> f.e - 1])

\* x * log10(e) in units of 10^-4, for a float x >= 0
Log10E == 4343
Decades(x) ==
  IF x.e >= 4 THEN (x.m * Log10E) * 10^(x.e - 4)
  ELSE (x.m * Log10E) \div 10^(4 - x.e)

\* np.exp(-x)
ExpNeg(x) == Underflow(Pow10(0 - Decades(x)))

\* a float in [0, 1] as a number of ten-thousandths
ToFixed4(f) ==
  IF f.m = 0 \/ f.e < 0 - 5 THEN 0
  ELSE IF f.e >= 0 THEN f.m * 10^f.e
  ELSE f.m \div 10^(0 - f.e)

\* f * 100
Times100(f) == IF f.m = 0 THEN Zero ELSE [m |-> f.m, e |-> f.e + 2]

(***************************************************************************)
(* The random generator: np.random's global state, seeded once per process *)
(* and advanced by every draw.  A state r stands for the uniform sample    *)
(* (2r + 1) / (2 * RngModulus) of [0, 1).                                  *)
(***************************************************************************)
\* the state after k draws
AdvN(r, k) == (r + k) % RngModulus
Adv(r) == AdvN(r, 1)

\* np.random.uniform(lo, hi), lo and hi in thousandths
Uniform(lo, hi, r) == lo + ((hi - lo) * (2 * r + 1)) \div (2 * RngModulus)

(***************************************************************************)
(* 2. Spectral efficiency and data rate (lines 27-32).                     *)
(***************************************************************************)
BitsPerSym(mod) ==
  ("QPSK (2 bits/sym)" :> 2 @@ "16-QAM (4 bits/sym)" :> 4 @@ "64-QAM (6 bits/sym)" :> 6)[mod]

\* the bandwidth truncated to whole MHz before use
DataRateWholeMHz(b, bits) == ((b \div 100) * 1000000 * bits) \div 7

\* bw * 1e6 * bits_per_sym / 7, bw in hundredths of a MHz
OFDM_OVERHEAD == 7
DataRate(b, bits) == (b * 10000 * bits) \div OFDM_OVERHEAD

(***************************************************************************)
(* 3. QoS class analyzer (lines 36-51): the if / elif / else chain.  The    *)
(* descriptions are the strings of st.write without their leading check    *)
(* mark.                                                                   *)
(***************************************************************************)
UGS_ROW ==
  [description |-> "Unsolicited Grant Service: Low delay, constant bit rate (e.g. VoIP)",
   metrics |-> [Delay |-> "Very Low", Jitter |-> "Low", Throughput |-> "High",
                BER |-> "Low", PLR |-> "Very Low"]]
RTPS_ROW ==
  [description |-> "Real-Time Polling Service: Variable rate, real-time (e.g. video)",
   metrics |-> [Delay |-> "Low", Jitter |-> "Medium", Throughput |-> "Medium-High",
                BER |-> "Medium", PLR |-> "Low"]]
NRTPS_ROW ==
  [description |-> "Non-Real-Time Polling Service: Bursty traffic (e.g. FTP)",
   metrics |-> [Delay |-> "High", Jitter |-> "Medium", Throughput |-> "Medium",
                BER |-> "Medium", PLR |-> "Medium"]]
BE_ROW ==
  [description |-> "Best Effort: No guarantee (e.g. web browsing)",
   metrics |-> [Delay |-> "Variable", Jitter |-> "Variable", Throughput |-> "Low-Medium",
                BER |-> "High", PLR |-> "High"]]

\* the chain with one branch misspelt, so that rtPS falls through to the else branch
QosRowMisspelt(q) ==
  IF q = "UGS" THEN UGS_ROW
  ELSE IF q = "rtps" THEN RTPS_ROW
  ELSE IF q = "nrtPS" THEN NRTPS_ROW
  ELSE BE_ROW

QosRow(q) ==
  IF q = "UGS" THEN UGS_ROW
  ELSE IF q = "rtPS" THEN RTPS_ROW
  ELSE IF q = "nrtPS" THEN NRTPS_ROW
  ELSE BE_ROW

(***************************************************************************)
(* 4. OFDM subcarriers (lines 55-58).  Array position p is index p + 1.    *)
(***************************************************************************)
N == 64
STRIDE == 4

\* np.arange(lo, hi)
Arange(lo, hi) == [i \in 1..(hi - lo) |-> lo + i - 1]

\* np.zeros(n)
Zeros(n) == [i \in 1..n |-> 0]

\* arr[1::step] = val: the slice starts one position late
SetEveryFromOne(arr, step, val) ==
  [i \in DOMAIN arr |-> IF (i - 1) % step = 1 THEN val ELSE arr[i]]

\* arr[::step] = val
SetEvery(arr, step, val) == [i \in DOMAIN arr |-> IF (i - 1) % step = 0 THEN val ELSE arr[i]]

Subcarriers == Arange((0 - N) \div 2, N \div 2)
Power == SetEvery(Zeros(N), STRIDE, 1)

(***************************************************************************)
(* 5. Scheduling demo (lines 68-70).                                       *)
(***************************************************************************)
\* the class list with the 802.16e class added, the probabilities left alone
traffic_classes_e == <<"UGS", "ertPS", "rtPS", "nrtPS", "BE">>
traffic_classes == <<"UGS", "rtPS", "nrtPS", "BE">>
slots == 20
\* p = [0.3, 0.3, 0.2, 0.2], in tenths
Prob == <<3, 3, 2, 2>>

RECURSIVE Cumsum(_, _)
Cumsum(p, i) == IF i = 0 THEN 0 ELSE Cumsum(p, i - 1) + p[i]

\* one draw of np.random.choice: the sample's place in the cumulative distribution
Choice(r) ==
  traffic_classes[1 + Cardinality({i \in DOMAIN Prob :
                                    Cumsum(Prob, i) * 2 * RngModulus <= (2 * r + 1) * 10})]

\* np.random.choice(traffic_classes, slots, p): slots draws in a row, for every
\* state the generator can be in
Schedules == [r \in 0..(RngModulus - 1) |-> [i \in 1..slots |-> Choice(AdvN(r, i - 1))]]
Schedule(r) == Schedules[r]

(***************************************************************************)
(* 6. QoS metrics (lines 79-87).                                           *)
(***************************************************************************)
\* 10 ** (snr // 10): the exponent taken with integer division
SnrLinFloorDiv(mdb) == Pow10((mdb \div 10000) * 10000)

\* 10 ** (snr / 10), snr in milli-dB
SnrLin(mdb) == Pow10(mdb)

\* 0.5 * np.exp(-snr_lin)
Ber(lin) == Half(ExpNeg(lin))

\* lines 80 and 83 for every position of the SNR slider
SnrLinOf == [s \in SnrValues |-> SnrLin(s * 1000)]
BerOf == [s \in SnrValues |-> Ber(SnrLinOf[s])]

\* lines 97-98: np.linspace(0, 30, 50) in milli-dB, and the curve over it
CURVE_POINTS == 50
snr_range == [i \in 1..CURVE_POINTS |-> (30000 * (i - 1)) \div (CURVE_POINTS - 1)]
ber_curve == [i \in 1..CURVE_POINTS |-> Ber(SnrLin(snr_range[i]))]

\* data_rate * (1 - ber)
Throughput(rate, b) == rate - MulDiv(rate, ToFixed4(b), 10000)

\* the divisor of the delay and jitter formulas
Divisor(snr) == snr + 1

\* a float divided by an int: Python raises ZeroDivisionError on a zero divisor
ZeroDivisionError == [raised |-> "ZeroDivisionError"]
Quot(a, d) == IF d = 0 THEN ZeroDivisionError ELSE a \div d

DelayDraw(r) == Uniform(10000, 50000, r)
JitterDraw(r) == Uniform(1000, 10000, r)

\* number of draws one execution makes before the button (lines 70, 85, 86)
RefreshDraws == slots + 2

(***************************************************************************)
(* 7. Real-time monitoring (lines 109-137).                                *)
(***************************************************************************)
\* range(31)
STEPS_OffByOne == 30 + 1
STEPS == 30

\* np.random.uniform(-3, 3)
OffsetWide(r) == Uniform(0 - 3000, 3000, r)

\* np.random.uniform(-2, 2), in milli-dB
Offset(r) == Uniform(0 - 2000, 2000, r)

\* snr_db + offset, in milli-dB
SnrDynamic(snr, r) == snr * 1000 + Offset(r)

\* lines 115-117 for every position of the SNR slider and state of the generator
BerDynamicOf ==
  [s \in SnrValues |-> [r \in 0..(RngModulus - 1) |-> Ber(SnrLin(SnrDynamic(s, r)))]]

\* list.insert(0, v)
ListInsertFirst(list, v) == <<v>> \o list

\* list.append(v)
ListAppend(list, v) == Append(list, v)

(***************************************************************************)
(* State.                                                                  *)
(***************************************************************************)
VARIABLES
  snr_db, mod_scheme, bw, qos_class, run_button,   \* the widgets' values
  bits_per_sym, data_rate,                         \* lines 30-31
  description, metrics,                            \* lines 38-49
  subcarriers, power,                              \* lines 56-58
  schedule,                                        \* line 70
  snr_lin, ber, throughput, delay, jitter, plr,    \* lines 80-87
  exc,                                             \* the exception that ended the execution
  rng,                                             \* np.random's state
  pc,                                              \* "idle": no execution; "loop": in the for loop
  interrupted,                                     \* this execution cut a running loop short
  t,                                               \* iterations of the loop completed
  x_vals, ber_vals, thr_vals,                      \* line 113
  snr_dynamic                                      \* line 115, last iteration (in milli-dB;
                                                   \* the configured SNR before the first)

vars ==
  <<snr_db, mod_scheme, bw, qos_class, run_button, bits_per_sym, data_rate, description,
    metrics, subcarriers, power, schedule, snr_lin, ber, throughput, delay, jitter, plr,
    exc, rng, pc, interrupted, t, x_vals, ber_vals, thr_vals, snr_dynamic>>

\* the lists kept from the execution before (as if held in the session state)
KeptLists == [x_vals |-> x_vals, ber_vals |-> ber_vals, thr_vals |-> thr_vals]

\* an execution that does not reach line 113 has no lists
NoLists == [x_vals |-> <<>>, ber_vals |-> <<>>, thr_vals |-> <<>>]

\* line 113: x_vals, ber_vals, thr_vals = [], [], []
EmptyLists == [x_vals |-> <<>>, ber_vals |-> <<>>, thr_vals |-> <<>>]

(***************************************************************************)
(* One execution of the script from line 1 up to the loop (lines 6-112),   *)
(* or to its end (line 139) when the button was not pressed: the values    *)
(* its variables hold afterwards.  r is the generator's state before.      *)
(***************************************************************************)
Script(snr, mod, b, qos, pressed, r) ==
  LET bits == BitsPerSym(mod)
      rate == DataRate(b, bits)
      lin == SnrLinOf[snr]
      be == BerOf[snr]
      d == Divisor(snr)
  IN [snr_db |-> snr, mod_scheme |-> mod, bw |-> b, qos_class |-> qos,
      run_button |-> pressed,
      bits_per_sym |-> bits,
      data_rate |-> rate,
      description |-> QosRow(qos).description,
      metrics |-> QosRow(qos).metrics,
      subcarriers |-> Subcarriers,
      power |-> Power,
      schedule |-> Schedule(r),
      snr_lin |-> lin,
      ber |-> be,
      throughput |-> Throughput(rate, be),
      delay |-> Quot(DelayDraw(AdvN(r, slots)), d),
      jitter |-> Quot(JitterDraw(AdvN(r, slots + 1)), d),
      plr |-> Times100(be),
      exc |-> IF d = 0 THEN "ZeroDivisionError" ELSE "none",
      rng |-> AdvN(r, RefreshDraws),
      pc |-> IF pressed /\ d # 0 THEN "loop" ELSE "idle"]

\* the first execution, when the page is opened: every widget at its default
Init ==
  \E seed \in 0..(RngModulus - 1) :
    \E s \in {Script(SNR_DEFAULT, "QPSK (2 bits/sym)", BW_DEFAULT, "UGS", FALSE, seed)} :
       /\ snr_db = s.snr_db /\ mod_scheme = s.mod_scheme /\ bw = s.bw
       /\ qos_class = s.qos_class /\ run_button = s.run_button
       /\ bits_per_sym = s.bits_per_sym /\ data_rate = s.data_rate
       /\ description = s.description /\ metrics = s.metrics
       /\ subcarriers = s.subcarriers /\ power = s.power /\ schedule = s.schedule
       /\ snr_lin = s.snr_lin /\ ber = s.ber /\ throughput = s.throughput
       /\ delay = s.delay /\ jitter = s.jitter /\ plr = s.plr
       /\ exc = s.exc /\ rng = s.rng /\ pc = s.pc
       /\ interrupted = FALSE
       /\ t = 0
       /\ x_vals = <<>> /\ ber_vals = <<>> /\ thr_vals = <<>>
       /\ snr_dynamic = s.snr_db * 1000

\* an interaction: whatever execution is under way is abandoned and the script runs again
Rerun(snr, mod, b, qos, pressed) ==
  \E s \in {Script(snr, mod, b, qos, pressed, rng)} :
     /\ snr_db' = s.snr_db /\ mod_scheme' = s.mod_scheme /\ bw' = s.bw
     /\ qos_class' = s.qos_class /\ run_button' = s.run_button
     /\ bits_per_sym' = s.bits_per_sym /\ data_rate' = s.data_rate
     /\ description' = s.description /\ metrics' = s.metrics
     /\ subcarriers' = s.subcarriers /\ power' = s.power /\ schedule' = s.schedule
     /\ snr_lin' = s.snr_lin /\ ber' = s.ber /\ throughput' = s.throughput
     /\ delay' = s.delay /\ jitter' = s.jitter /\ plr' = s.plr
     /\ exc' = s.exc /\ rng' = s.rng /\ pc' = s.pc
     /\ interrupted' = (pc = "loop")
     /\ t' = 0
     /\ \E lists \in {IF s.pc = "loop" THEN EmptyLists ELSE NoLists} :
          x_vals' = lists.x_vals /\ ber_vals' = lists.ber_vals /\ thr_vals' = lists.thr_vals
     /\ snr_dynamic' = s.snr_db * 1000

\* line 79: the SNR slider is moved
SetSnr(v) == v # snr_db /\ Rerun(v, mod_scheme, bw, qos_class, FALSE)

\* line 27: another modulation is chosen
SetMod(v) == v # mod_scheme /\ Rerun(snr_db, v, bw, qos_class, FALSE)

\* line 28: the bandwidth slider is moved
SetBw(v) == v # bw /\ Rerun(snr_db, mod_scheme, v, qos_class, FALSE)

\* line 36: another service class is selected
SetQos(v) == v # qos_class /\ Rerun(snr_db, mod_scheme, bw, v, FALSE)

\* line 109: "Start Live Simulation" is clicked
PressStart == Rerun(snr_db, mod_scheme, bw, qos_class, TRUE)

\* lines 114-137: one iteration of the loop
LoopStep ==
  /\ pc = "loop"
  /\ t < STEPS
  /\ LET dyn == SnrDynamic(snr_db, rng)
         ber_dynamic == BerDynamicOf[snr_db][rng]
         thr_dynamic == Throughput(data_rate, ber_dynamic)
     IN /\ snr_dynamic' = dyn
        /\ x_vals' = ListAppend(x_vals, t)
        /\ ber_vals' = ListAppend(ber_vals, ber_dynamic)
        /\ thr_vals' = ListAppend(thr_vals, thr_dynamic)
  /\ rng' = Adv(rng)
  /\ t' = t + 1
  /\ UNCHANGED <<snr_db, mod_scheme, bw, qos_class, run_button, bits_per_sym, data_rate,
                 description, metrics, subcarriers, power, schedule, snr_lin, ber,
                 throughput, delay, jitter, plr, exc, pc, interrupted>>

\* the loop is exhausted: line 139, and the execution ends
LoopExit ==
  /\ pc = "loop"
  /\ t >= STEPS
  /\ pc' = "idle"
  /\ UNCHANGED <<snr_db, mod_scheme, bw, qos_class, run_button, bits_per_sym, data_rate,
                 description, metrics, subcarriers, power, schedule, snr_lin, ber,
                 throughput, delay, jitter, plr, exc, rng, interrupted, t, x_vals,
                 ber_vals, thr_vals, snr_dynamic>>

Next ==
  \/ \E v \in SnrInputs : SetSnr(v)
  \/ \E v \in ModSchemes : SetMod(v)
  \/ \E v \in BwInputs : SetBw(v)
  \/ \E v \in QosClasses : SetQos(v)
  \/ PressStart
  \/ LoopStep
  \/ LoopExit

Spec == Init /\ [][Next]_vars

\* the script's thread runs the loop on unless an interaction abandons the execution
FairSpec == Spec /\ WF_vars(LoopStep) /\ WF_vars(LoopExit)

(***************************************************************************)
(* Properties.                                                             *)
(***************************************************************************)

\* an iteration of the loop is the only step that raises t by one
Iteration == t' = t + 1

\* an execution that completed its loop: the chart stays on the page
Completed == pc = "idle" /\ run_button /\ exc = "none"

\* C1, state part: after k completed iterations the three lists have k elements each,
\* the time list is 0, 1, ..., k-1, k never exceeds 30 and a completed run holds 30.
C1_Lists ==
  /\ t \in 0..30
  /\ Len(x_vals) = t /\ Len(ber_vals) = t /\ Len(thr_vals) = t
  /\ \A i \in 1..Len(x_vals) : x_vals[i] = i - 1
  /\ Completed => Len(x_vals) = 30 /\ x_vals[30] = 29
  /\ pc = "idle" /\ ~run_button => t = 0

\* C1, step part: an iteration appends exactly one element to each list.
C1_Appends ==
  Iteration =>
    /\ x_vals' = x_vals \o <<t>>
    /\ Len(ber_vals') = Len(ber_vals) + 1
    /\ SubSeq(ber_vals', 1, Len(ber_vals)) = ber_vals
    /\ Len(thr_vals') = Len(thr_vals) + 1
    /\ SubSeq(thr_vals', 1, Len(thr_vals)) = thr_vals

\* C1: during a run the three lists grow together, one element per iteration, the time
\* list counting 0, 1, 2, ...; a completed run holds exactly 30 triples, times 0..29.
C1_Series == []C1_Lists /\ [][C1_Appends]_vars

C1_Witness == Completed /\ Len(x_vals) = 30 /\ Len(ber_vals) = 30 /\ Len(thr_vals) = 30

\* C2, state part: the driver is Idle or Running; Running, it has done at most 30
\* iterations, the next one is enabled while fewer than 30 are done, and after the
\* 30th only the return to Idle is (no 31st iteration).
C2_States ==
  /\ pc \in {"idle", "loop"}
  /\ pc = "loop" =>
       /\ run_button
       /\ t <= 30
       /\ t < 30 => ENABLED LoopStep /\ ~ENABLED LoopExit
       /\ t = 30 => ENABLED LoopExit /\ ~ENABLED LoopStep
  /\ pc = "idle" => ~ENABLED LoopStep /\ ~ENABLED LoopExit

\* C2, step part: Idle is left only by a press of the button, which starts at
\* iteration 0; a run's iterations are counted one by one; Running is left for Idle
\* after the 30th iteration, or earlier only because another widget was changed.
C2_Steps ==
  /\ pc = "idle" /\ pc' = "loop" => run_button' /\ t' = 0
  /\ pc = "loop" /\ pc' = "loop" => t' = t + 1 \/ (run_button' /\ t' = 0)
  /\ pc = "loop" /\ pc' = "idle" =>
       \/ t = 30 /\ t' = 30 /\ run_button'
       \/ ~run_button' /\ t' = 0

\* C2, progress: a run that has begun does its first iteration unless a widget change
\* abandons it, and a run under way ends: it returns to Idle, or a press restarts it.
C2_Terminates ==
  /\ (pc = "loop" /\ t = 0) ~> (t = 1 \/ pc = "idle")
  /\ (pc = "loop" /\ t > 0) ~> (pc = "idle" \/ t = 0)

\* C2: two states, Idle and Running; Idle is left only on a press; a run that is not
\* interrupted does exactly 30 iterations, never a 31st, and returns to Idle; every
\* run under way ends.
C2_Driver == []C2_States /\ [][C2_Steps]_vars /\ C2_Terminates

C2_Witness == Completed /\ t = 30 /\ ~interrupted

\* a run that has just begun
FreshRun ==
  pc = "loop" /\ run_button /\ t = 0 /\ x_vals = <<>> /\ ber_vals = <<>> /\ thr_vals = <<>>

\* the points the current settings can produce
RunBers == {BerDynamicOf[snr_db][r] : r \in 0..(RngModulus - 1)}

\* C3, state part: a press during a run is accepted and begins a fresh run, and
\* every point held was computed by the current run from the current settings.
C3_State ==
  /\ pc = "loop" => ENABLED (PressStart /\ FreshRun')
  /\ \A i \in 1..Len(ber_vals) :
       /\ ber_vals[i] \in RunBers
       /\ thr_vals[i] = Throughput(data_rate, ber_vals[i])

\* C3, step part: every execution begins at index 0; one begun by a press begins a
\* fresh run, whatever was running; one begun otherwise holds no points at all.
C3_Step ==
  /\ t' = 0 /\ run_button' => FreshRun'
  /\ t' = 0 /\ ~run_button' => x_vals' = <<>> /\ ber_vals' = <<>> /\ thr_vals' = <<>>
  /\ t' # 0 => Iteration \/ t' = t

\* C3: a press while a run is in progress restarts it with empty lists at index 0,
\* the new run does its own 30 steps, and no point of an earlier run or refresh is
\* found in a later run's lists.
C3_Restart == []C3_State /\ [][C3_Step]_vars

C3_Witness == interrupted /\ run_button /\ pc = "idle" /\ t = 30 /\ Len(x_vals) = 30

\* C4: the divisor SNR + 1 of the delay and jitter formulas is at least 1 for every
\* position of the SNR slider and in every state, and no execution ends in a
\* ZeroDivisionError.
C4_NoDivisionByZero ==
  /\ \A s \in SnrValues : Divisor(s) >= 1
  /\ snr_db \in SnrValues
  /\ Divisor(snr_db) >= 1
  /\ exc = "none"
  /\ delay >= 0 /\ jitter >= 0

C4_Witness == snr_db = 0 /\ pc = "loop" /\ t > 0 /\ delay > 0 /\ jitter > 0

\* C5: the descriptor lookup is defined for each of the four classes and for no
\* other input of the control; the selected class has a non-empty description and a
\* rating set with exactly the keys Delay, Jitter, Throughput, BER, PLR, and no other
\* class has the same description or the same ratings.
C5_QosLookup ==
  /\ QosClasses = {"UGS", "rtPS", "nrtPS", "BE"}
  /\ qos_class \in QosClasses
  /\ description # ""
  /\ DOMAIN metrics = {"Delay", "Jitter", "Throughput", "BER", "PLR"}
  /\ \A k \in DOMAIN metrics : metrics[k] # ""
  /\ \A q \in QosClasses \ {qos_class} :
       QosRow(q).description # description /\ QosRow(q).metrics # metrics

C5_Witness == qos_class = "rtPS" /\ metrics.Throughput = "Medium-High"

\* C6: the allocation array has 64 entries for the subcarrier indices -32..31, every
\* entry is 0 or 1, exactly 16 are 1, and those are the array positions 0, 4, ..., 60.
C6_Subcarriers ==
  /\ Len(subcarriers) = 64 /\ Len(power) = 64
  /\ \A i \in 1..64 : subcarriers[i] = i - 33
  /\ \A i \in 1..64 : power[i] \in {0, 1}
  /\ Cardinality({i \in 1..64 : power[i] = 1}) = 16
  /\ {i - 1 : i \in {j \in 1..64 : power[j] = 1}} = {4 * k : k \in 0..15}

C6_Witness == power[1] = 1 /\ power[2] = 0 /\ power[61] = 1 /\ power[64] = 0

RateIncreasing ==
  /\ \A b \in BW_MIN..(BW_MAX - 1) : \A bits \in {2, 4, 6} :
       DataRate(b, bits) < DataRate(b + 1, bits)
  /\ \A b \in BwValues : DataRate(b, 2) < DataRate(b, 4) /\ DataRate(b, 4) < DataRate(b, 6)

\* C8: the data rate is bandwidth x bits per symbol / 7 (its integral part, in bit/s),
\* strictly increasing in the bandwidth and in the bits per symbol; 10 MHz with
\* 16-QAM gives 10e6 x 4 / 7 = 5714285.7 bit/s.
C8_DataRate ==
  /\ bits_per_sym \in {2, 4, 6}
  /\ 7 * data_rate <= bw * 10000 * bits_per_sym
  /\ bw * 10000 * bits_per_sym < 7 * (data_rate + 1)
  /\ \A b \in BwInputs :
       /\ b < bw => DataRate(b, bits_per_sym) < data_rate
       /\ b > bw => DataRate(b, bits_per_sym) > data_rate
  /\ \A bits \in {2, 4, 6} :
       /\ bits < bits_per_sym => DataRate(bw, bits) < data_rate
       /\ bits > bits_per_sym => DataRate(bw, bits) > data_rate
  /\ RateIncreasing
  /\ bw = 1000 /\ bits_per_sym = 4 => data_rate = 5714285

C8_Witness == bw = 1000 /\ mod_scheme = "16-QAM (4 bits/sym)" /\ data_rate = 5714285

\* C9 as claimed: BER is strictly decreasing in SNR over the whole range 0..30 dB.
C9_StrictlyDecreasing ==
  \A a \in SnrValues :
    /\ a < snr_db => FloatLess(ber, BerOf[a])
    /\ a > snr_db => FloatLess(BerOf[a], ber)

\* over the slider's positions: BER never rises, and falls strictly up to 28 dB
BerFalling ==
  \A a \in SnrValues : \A b \in SnrValues :
    a < b => /\ ~FloatLess(BerOf[a], BerOf[b])
             /\ b <= 28 => FloatLess(BerOf[b], BerOf[a])
             /\ b > 28 => BerOf[b] = Zero

\* the BER curve never rises, and ends in 0.0
CurveNonIncreasing ==
  /\ \A i \in 1..(CURVE_POINTS - 1) : ~FloatLess(ber_curve[i], ber_curve[i + 1])
  /\ ber_curve[CURVE_POINTS] = Zero

\* C9, amended: BER never increases with SNR over 0..30 dB and is strictly decreasing
\* over 0..28 dB; at 29 and 30 dB the exponential underflows and BER is exactly 0.0
\* at both; at 0 dB BER is 0.5 * e^-1 = 0.1839.
C9_Decreasing ==
  /\ \A a \in SnrValues :
       /\ a < snr_db => ~FloatLess(BerOf[a], ber)
       /\ a < snr_db /\ snr_db <= 28 => FloatLess(ber, BerOf[a])
  /\ snr_db > 28 <=> ber = Zero
  /\ BerFalling
  /\ snr_db = 0 => ber.e = 0 - 1 /\ ber.m \in 18300..18450
  /\ CurveNonIncreasing

C9_Witness == snr_db = 30 /\ ber = Zero /\ BerOf[29] = Zero /\ BerOf[28] # Zero

\* C10, state part: the last perturbed SNR is within 2 dB of the configured SNR.
C10_Range ==
  /\ snr_dynamic >= (snr_db - 2) * 1000
  /\ snr_dynamic <= (snr_db + 2) * 1000

\* C10, step part: an iteration leaves the configured SNR and the data rate alone and
\* perturbs the configured SNR, not the SNR of the iteration before.
C10_Frame ==
  Iteration =>
    /\ snr_db' = snr_db /\ data_rate' = data_rate
    /\ bw' = bw /\ mod_scheme' = mod_scheme /\ bits_per_sym' = bits_per_sym
    /\ \E r \in 0..(RngModulus - 1) : snr_dynamic' = snr_db * 1000 + Offset(r)

\* C10: every iteration of a run leaves the configured SNR and the data rate unchanged,
\* and its perturbed SNR is the configured SNR plus its own offset in [-2, 2]: within
\* [SNR - 2, SNR + 2] at each of the 30 steps, offsets never adding up.
C10_Perturbation == []C10_Range /\ [][C10_Frame]_vars

C10_Witness == Completed /\ t = 30 /\ snr_dynamic # snr_db * 1000 /\ data_rate > 0

====
